---- MODULE Spec2Model ----
(***************************************************************************)
(* The Spotify -> S3 ingestion pipeline (pipeline.py, spotify_client.py,   *)
(* s3_client.py) and its artist ledger (artist_genre_processor.py) as a    *)
(* state machine.                                                          *)
(*                                                                         *)
(* Event times are small integers; record i of the source has event time   *)
(* i + 1, so that 1 is a cursor that lies before every record.  The wall   *)
(* clock is only ever read by upload_tracks_batch (datetime.utcnow(), at   *)
(* one-second resolution in the key), and only equality of two readings    *)
(* matters: clock is the index of the calendar second of the latest        *)
(* reading that named a stored artifact, waited says that at least one     *)
(* full second of sleeping has passed since that reading.                  *)
(***************************************************************************)
EXTENDS Integers, Sequences, FiniteSets, TLC

\* ------------------------------------------------------------------ bounds
MaxRecords == 3        \* records the source holds
MaxBatchSize == 3      \* largest configured batch_size
MaxClock == 4          \* distinct calendar seconds in which artifacts are written
MaxRuns == 2           \* invocations (run_once / backfill) in one behaviour
MaxArtists == 3        \* artist ids 1..MaxArtists
MaxTracks == 2         \* tracks in one track_items argument
MaxInvocations == 2    \* enrichment invocations in one behaviour

\* ------------------------------------------------------- program constants
PageCap == 2           \* min(limit, 50) of get_recent_tracks, scaled from 50 to 2
MaxAttempts == 3       \* stop_after_attempt(3) of every @retry
RetryWaitSeconds == 4  \* wait_exponential(multiplier=1, min=4, max=10): 4 s before attempts 2 and 3
max_retries == 3       \* settings.pipeline.max_retries
ArtistPageCap == 2     \* min(50, batch_size) of process_new_artists_from_tracks, scaled

\* ------------------------------------------------------------- file values
None == -1             \* Python None
NoFile == -1           \* pipeline_state.json does not exist
Torn == -2             \* pipeline_state.json truncated or partly written
NoKey == <<>>          \* the empty string upload_tracks_batch returns for no tracks

VARIABLES
    source,                    \* the records the Source API holds, by event time
    batchSize,                 \* settings.pipeline.batch_size
    stateFile,                 \* pipeline_state.json: NoFile, Torn or the watermark
    last_processed_timestamp,  \* SpotifyDataPipeline.last_processed_timestamp
    storage,                   \* the bucket: a set of [key, recs]
    clock, waited,             \* see the header
    pc,                        \* position of the one running invocation
    mode,                      \* "none", "run_once" or "backfill"
    after,                     \* get_all_recent_tracks_since: after
    tracks, pos,               \* the generator's current page and tracks yielded of it
    batch,                     \* fetch_and_process_new_tracks: batch
    ret,                       \* who called process_batch / update_last_processed_timestamp
    pbAttempt, upAttempt,      \* tenacity attempt numbers: process_batch, upload_tracks_batch
    fetchAttempt,              \* tenacity attempt number of get_recent_tracks
    s3_key,                    \* process_batch: s3_key
    saveVal,                   \* update_last_processed_timestamp: timestamp
    original_timestamp,        \* backfill_historical_data: original_timestamp
    result,                    \* how the last invocation ended
    runs,                      \* invocations started so far
    hist                       \* history of the behaviour, read by the properties only

VARIABLES
    ledgerFile,                \* artist_genre_state.json: [st, ids]
    processed_artists,         \* ArtistGenreProcessor.processed_artists
    artistStorage,             \* the bucket under the artist prefix: a set of [key, recs]
    epc,                       \* position of the process that holds the processor
    eret,                      \* who called _save_processed_artists / upload_artists_to_s3
    new_artist_ids,            \* process_new_artists_from_tracks: new_artist_ids
    subStart,                  \* process_new_artists_from_tracks: i
    transformed_artists,       \* process_new_artists_from_tracks: transformed_artists
    pabAttempt, uaAttempt,     \* tenacity attempts: process_artist_batch, upload_artists_to_s3
    processed_count,           \* process_new_artists_from_tracks: processed_count
    invocations,               \* enrichment invocations started so far
    ehist                      \* history of the ledger, read by the properties only

VARIABLES
    due                        \* run_continuous: the period of the scheduled job has elapsed

scheduler == <<due>>

enrichment == <<ledgerFile, processed_artists, artistStorage, epc, eret,
                new_artist_ids, subStart, transformed_artists, pabAttempt,
                uaAttempt, processed_count, invocations, ehist>>

vars == <<source, batchSize, stateFile, last_processed_timestamp, storage, clock,
          waited, pc, mode, after, tracks, pos, batch, ret, pbAttempt, upAttempt,
          fetchAttempt, s3_key, saveVal, original_timestamp, result, runs, hist,
          enrichment, scheduler>>

config == <<source, batchSize, scheduler>>
locals == <<after, tracks, pos, batch, ret, pbAttempt, upAttempt, fetchAttempt,
            s3_key, saveVal, original_timestamp>>

\* ---------------------------------------------------------------- helpers
Min(a, b) == IF a < b THEN a ELSE b

Last(s) == s[Len(s)]

Range(s) == {s[i] : i \in 1..Len(s)}

Prefix(s, n) == [i \in 1..Min(n, Len(s)) |-> s[i]]

MaxOf(S) == CHOOSE x \in S : \A y \in S : y <= x

\* The sources considered: n records with strictly ascending event times.
Sources == {[i \in 1..n |-> i + 1] : n \in 0..MaxRecords}

\* Values "now - 24h" and "now - days" can take relative to the records.
Cursors == 1..(MaxRecords + 1)

\* load_state + state.get("last_processed_timestamp"): a missing or unreadable
\* file gives {} and so None.
get_last_processed_timestamp_raw(file) == IF file \in {NoFile, Torn} THEN None ELSE file

get_last_processed_timestamp == get_last_processed_timestamp_raw(stateFile)

\* "if not last_timestamp" / "if original_timestamp and ...": None and 0 are
\* both false.
Falsy(timestamp) == timestamp \in {None, 0}

\* sp.current_user_recently_played(limit=min(limit, 50), after=after): at most
\* that many records strictly after the cursor, ascending by event time.
FetchIgnoringCursor(cursor, limit) == Prefix(source, Min(limit, PageCap))

get_recent_tracks(cursor, limit) ==
    Prefix(SelectSeq(source, LAMBDA r : r > cursor), Min(limit, PageCap))

\* generate_s3_key: prefix/YYYY/MM/DD/spotify_tracks_YYYYMMDD_HHMMSS_batch_<n>.json.gz
generate_s3_key(timestamp, n) == <<timestamp, n>>

\* put_object: the object under Key is created or replaced.
put_object(key, recs) ==
    {a \in storage : a.key # key} \cup {[key |-> key, recs |-> recs]}

\* The artifacts a put_object under key replaces by different data.
Clobbered(key, recs) == {a \in storage : a.key = key /\ a.recs # recs}

InStorage(r) == \E a \in storage : r \in Range(a.recs)

\* ------------------------------------------------------- ledger helpers
Artists == 1..MaxArtists

\* artist_genre_state.json: absent, truncated or partly written, or holding the
\* list "processed_artists".
NoLedger == [st |-> "absent", ids |-> {}]

TornLedger == [st |-> "torn", ids |-> {}]

LedgerOf(ids) == [st |-> "ok", ids |-> ids]

\* _load_processed_artists: FileNotFoundError and any other exception (a JSON
\* decode error of a truncated file among them) give the empty set.
_load_processed_artists(file) == IF file.st = "ok" THEN file.ids ELSE {}

\* A track item is the list of its artists' ids; 0 is an artist without an id.
TrackItem == {<<a>> : a \in 0..MaxArtists} \cup
             {<<a, b>> : a \in 1..MaxArtists, b \in 0..MaxArtists}

TrackItems == UNION {[1..n -> TrackItem] : n \in 0..MaxTracks}

\* The ids of a sequence in order of first occurrence.
RECURSIVE Unique(_)
Unique(s) ==
    IF s = <<>> THEN <<>>
    ELSE LET front == Unique(SubSeq(s, 1, Len(s) - 1))
         IN IF Last(s) \in Range(front) THEN front ELSE Append(front, Last(s))

RECURSIVE Flatten(_)
Flatten(ss) == IF ss = <<>> THEN <<>> ELSE Head(ss) \o Flatten(Tail(ss))

\* extract_artists_from_tracks: the artists with an id, once each, in order of
\* first appearance.
extract_artists_from_tracks(track_items) ==
    Unique(SelectSeq(Flatten(track_items), LAMBDA a : a # 0))

\* extract_new_artists_from_tracks as it would be without the test against
\* processed_artists.
extract_artists_ignoring_ledger(track_items) ==
    extract_artists_from_tracks(track_items)

\* extract_new_artists_from_tracks: those not in processed_artists.
extract_new_artists_from_tracks(track_items) ==
    SelectSeq(extract_artists_from_tracks(track_items),
              LAMBDA a : a \notin processed_artists)

\* new_artist_ids[i:i + batch_size] with batch_size = min(50, settings batch_size).
SubBatchSize == Min(ArtistPageCap, batchSize)

batch_ids == SubSeq(new_artist_ids, subStart + 1,
                    Min(subStart + SubBatchSize, Len(new_artist_ids)))

\* What sp.artists(batch_ids) can give get_multiple_artists: the artists asked
\* for, without those the API answers with null; nothing when the call raised.
RawArtists(ids) ==
    {SelectSeq(ids, LAMBDA a : a \in S) : S \in SUBSET Range(ids)}

NoEhist == [ever |-> {}, done |-> {}, doneArtifacts |-> {}, uploaded |-> {}, isolated |-> {},
            isolatedArtifacts |-> {}, reenriched |-> FALSE, tornLost |-> FALSE,
            forced |-> FALSE, restarted |-> FALSE, returned |-> FALSE,
            ledgerBefore |-> {}, artistStorage0 |-> {}, sent |-> {},
            saveFailed |-> FALSE, failed |-> FALSE, track_items |-> <<>>,
            removed |-> {}, transport |-> FALSE]

EnrichmentLocals ==
    /\ eret = "none"
    /\ new_artist_ids = <<>>
    /\ subStart = 0
    /\ transformed_artists = <<>>
    /\ pabAttempt = 1
    /\ uaAttempt = 1
    /\ processed_count = 0

\* enable_artist_genre_processing is off: the processor is never called.
EnrichmentOff ==
    /\ ledgerFile = NoLedger
    /\ processed_artists = {}
    /\ artistStorage = {}
    /\ epc = "dead"
    /\ invocations = 0
    /\ ehist = NoEhist
    /\ EnrichmentLocals

\* ------------------------------------------------------------------- Init
NoHist == [overwrote |-> FALSE, backfilled |-> FALSE, upFailed |-> FALSE, fetchFailed |-> FALSE,
           timedOut |-> FALSE, runStart |-> None, kind |-> "none",
           durable |-> None, inflight |-> None, preRun |-> None,
           storage0 |-> {}, storageAtFail |-> {}, failedBatch |-> <<>>,
           w0 |-> None, timeoutBatch |-> <<>>, attemptKeys |-> <<>>, now |-> 0,
           arg |-> <<>>]

\* No invocation is running: SpotifyDataPipeline.__init__ has set
\* last_processed_timestamp = None and nothing else is in memory.
IngestionIdle ==
    /\ last_processed_timestamp = None
    /\ storage = {}
    /\ clock = 0
    /\ waited = TRUE
    /\ pc = "idle"
    /\ mode = "none"
    /\ after = None
    /\ tracks = <<>>
    /\ pos = 0
    /\ batch = <<>>
    /\ ret = "none"
    /\ pbAttempt = 1
    /\ upAttempt = 1
    /\ fetchAttempt = 1
    /\ s3_key = NoKey
    /\ saveVal = None
    /\ original_timestamp = None
    /\ result = "none"
    /\ runs = 0
    /\ due = FALSE

Init ==
    /\ source \in Sources
    /\ batchSize \in 1..MaxBatchSize
    /\ stateFile \in {NoFile} \cup Cursors
    /\ IngestionIdle
    /\ hist = [NoHist EXCEPT !.durable = get_last_processed_timestamp_raw(stateFile),
                            !.inflight = get_last_processed_timestamp_raw(stateFile),
                            !.w0 = get_last_processed_timestamp_raw(stateFile)]
    /\ EnrichmentOff

\* upload_tracks_batch reads utcnow() and names the key of one write attempt.
\* h.attemptKeys are the keys of the write attempts made for the current batch,
\* with the seconds counted from the batch's first attempt; elapsed is the time
\* that passes before the next attempt.
Attempt(h, elapsed) ==
    [h EXCEPT !.attemptKeys = Append(@, generate_s3_key(h.now, Len(batch))),
              !.now = @ + elapsed]

\* The batch is over: process_batch returned or its error left the run.
NoAttempts(h) == [h EXCEPT !.attemptKeys = <<>>, !.now = 0]

\* ------------------------------------------------ run_once / backfill start
\* main.py run-once / run_continuous: run_once() begins.
run_once_start ==
    /\ pc = "idle"
    /\ runs < MaxRuns
    /\ runs' = runs + 1
    /\ mode' = "run_once"
    /\ pc' = "preconditions"
    /\ result' = "none"
    /\ hist' = [hist EXCEPT !.upFailed = FALSE, !.fetchFailed = FALSE,
                            !.timedOut = FALSE, !.kind = "run_once",
                            !.runStart = None,
                            !.preRun = get_last_processed_timestamp,
                            !.storage0 = storage, !.storageAtFail = {},
                            !.failedBatch = <<>>, !.timeoutBatch = <<>>]
    /\ UNCHANGED <<config, enrichment, stateFile, last_processed_timestamp, storage, clock,
                   waited, locals>>

\* run_once_preconditions_fail as it would be if the failed run also discarded
\* the state file.
run_once_preconditions_fail_resets ==
    /\ pc = "preconditions"
    /\ pc' = "idle"
    /\ mode' = "none"
    /\ result' = "false"
    /\ stateFile' = NoFile
    /\ UNCHANGED <<config, enrichment, last_processed_timestamp, storage, clock,
                   waited, locals, runs, hist>>

\* run_once: authenticate() or ensure_bucket_exists() returned False.
run_once_preconditions_fail ==
    /\ pc = "preconditions"
    /\ pc' = "idle"
    /\ mode' = "none"
    /\ result' = "false"
    /\ UNCHANGED <<config, enrichment, stateFile, last_processed_timestamp, storage, clock,
                   waited, locals, runs, hist>>

run_once_preconditions_ok ==
    /\ pc = "preconditions"
    /\ pc' = "cursor"
    /\ UNCHANGED <<config, enrichment, stateFile, last_processed_timestamp, storage, clock,
                   waited, locals, mode, result, runs, hist>>

\* fetch_and_process_new_tracks: the starting timestamp, "now - 24h" when the
\* state holds none.
fetch_and_process_new_tracks_start ==
    /\ pc = "cursor"
    /\ \E c \in (IF Falsy(get_last_processed_timestamp)
                 THEN Cursors ELSE {get_last_processed_timestamp}) :
          /\ after' = c
          /\ hist' = [hist EXCEPT !.runStart = c]
    /\ batch' = <<>>
    /\ tracks' = <<>>
    /\ pos' = 0
    /\ fetchAttempt' = 1
    /\ pc' = "fetch"
    /\ UNCHANGED <<config, enrichment, stateFile, last_processed_timestamp, storage, clock,
                   waited, mode, ret, pbAttempt, upAttempt, s3_key, saveVal,
                   original_timestamp, result, runs>>

\* main.py backfill: a new process runs backfill_historical_data(days); the
\* start timestamp is now - min(days, 50) days.
backfill_historical_data_start ==
    /\ pc = "idle"
    /\ runs < MaxRuns
    /\ runs' = runs + 1
    /\ mode' = "backfill"
    /\ result' = "none"
    /\ last_processed_timestamp' = None
    /\ original_timestamp' = get_last_processed_timestamp
    /\ \E c \in Cursors :
          /\ after' = c
          /\ hist' = [hist EXCEPT !.upFailed = FALSE, !.fetchFailed = FALSE,
                                  !.timedOut = FALSE, !.kind = "backfill",
                                  !.backfilled = TRUE,
                                  !.preRun = get_last_processed_timestamp,
                                  !.storage0 = storage, !.storageAtFail = {},
                                  !.failedBatch = <<>>, !.timeoutBatch = <<>>,
                                  !.runStart = c]
    /\ batch' = <<>>
    /\ tracks' = <<>>
    /\ pos' = 0
    /\ fetchAttempt' = 1
    /\ pc' = "fetch"
    /\ UNCHANGED <<config, enrichment, stateFile, storage, clock, waited, ret, pbAttempt,
                   upAttempt, s3_key, saveVal>>

\* ------------------------------------------ get_all_recent_tracks_since
\* GeneratorResume as it would be if the cursor were not moved to the page's
\* last event time before the next fetch.
GeneratorResumeSameCursor(p) ==
    IF p < Len(tracks)
    THEN /\ pc' = "yield"
         /\ UNCHANGED <<after, fetchAttempt>>
    ELSE IF Len(tracks) < batchSize
    THEN /\ pc' = "flush"
         /\ UNCHANGED <<after, fetchAttempt>>
    ELSE /\ pc' = "fetch"
         /\ after' = after
         /\ fetchAttempt' = 1

\* The generator's next step once the consumer asks for another track: yield
\* the next track of the page, or leave the loop after a short page, or move the
\* cursor to the page's last event time, sleep 0.6 s and fetch again.
GeneratorResume(p) ==
    IF p < Len(tracks)
    THEN /\ pc' = "yield"
         /\ UNCHANGED <<after, fetchAttempt>>
    ELSE IF Len(tracks) < batchSize
    THEN /\ pc' = "flush"
         /\ UNCHANGED <<after, fetchAttempt>>
    ELSE /\ pc' = "fetch"
         /\ after' = Last(tracks)
         /\ fetchAttempt' = 1

\* get_recent_tracks returned a page.
get_recent_tracks_ok ==
    /\ pc = "fetch"
    /\ tracks' = get_recent_tracks(after, batchSize)
    /\ pos' = 0
    /\ pc' = IF tracks' = <<>> THEN "flush" ELSE "yield"
    /\ UNCHANGED <<config, enrichment, stateFile, last_processed_timestamp, storage, clock,
                   waited, mode, after, batch, ret, pbAttempt, upAttempt,
                   fetchAttempt, s3_key, saveVal, original_timestamp, result,
                   runs, hist>>

\* get_recent_tracks raised and tenacity waits (>= 4 s) and calls it again.
get_recent_tracks_retry ==
    /\ pc = "fetch"
    /\ fetchAttempt < MaxAttempts
    /\ fetchAttempt' = fetchAttempt + 1
    /\ waited' = TRUE
    /\ UNCHANGED <<config, enrichment, stateFile, last_processed_timestamp, storage, clock,
                   pc, mode, after, tracks, pos, batch, ret, pbAttempt, upAttempt,
                   s3_key, saveVal, original_timestamp, result, runs, hist>>

\* get_recent_tracks raised on its last attempt: RetryError leaves the generator
\* and the for loop, into the caller's except clause.
get_recent_tracks_raise ==
    /\ pc = "fetch"
    /\ fetchAttempt = MaxAttempts
    /\ pc' = IF mode = "run_once" THEN "except" ELSE "restore"
    /\ hist' = [hist EXCEPT !.fetchFailed = TRUE]
    /\ UNCHANGED <<config, enrichment, stateFile, last_processed_timestamp, storage, clock,
                   waited, mode, after, tracks, pos, batch, ret, pbAttempt,
                   upAttempt, fetchAttempt, s3_key, saveVal, original_timestamp,
                   result, runs>>

\* ------------------------------------------------- the for loop's body
\* append_track as it would be if the batch were processed only once it is
\* larger than batch_size.
append_track_late ==
    /\ pc = "yield"
    /\ batch' = Append(batch, tracks[pos + 1])
    /\ pos' = pos + 1
    /\ IF Len(batch') > batchSize
       THEN /\ pc' = "upload"
            /\ ret' = "loop"
            /\ pbAttempt' = 1
            /\ upAttempt' = 1
            /\ s3_key' = NoKey
            /\ UNCHANGED <<after, fetchAttempt>>
       ELSE /\ GeneratorResume(pos')
            /\ UNCHANGED <<ret, pbAttempt, upAttempt, s3_key>>
    /\ UNCHANGED <<config, enrichment, stateFile, last_processed_timestamp, storage, clock,
                   waited, mode, tracks, saveVal, original_timestamp, result,
                   runs, hist>>

\* batch.append(track); then process_batch(batch) once the batch is full.
append_track ==
    /\ pc = "yield"
    /\ batch' = Append(batch, tracks[pos + 1])
    /\ pos' = pos + 1
    /\ IF Len(batch') >= batchSize
       THEN /\ pc' = "upload"
            /\ ret' = "loop"
            /\ pbAttempt' = 1
            /\ upAttempt' = 1
            /\ s3_key' = NoKey
            /\ UNCHANGED <<after, fetchAttempt>>
       ELSE /\ GeneratorResume(pos')
            /\ UNCHANGED <<ret, pbAttempt, upAttempt, s3_key>>
    /\ UNCHANGED <<config, enrichment, stateFile, last_processed_timestamp, storage, clock,
                   waited, mode, tracks, saveVal, original_timestamp, result,
                   runs, hist>>

\* batch.append(track); then the max_runtime guard raises TimeoutError.
append_track_timeout ==
    /\ pc = "yield"
    /\ mode = "run_once"
    /\ batch' = Append(batch, tracks[pos + 1])
    /\ pos' = pos + 1
    /\ pc' = "except"
    /\ hist' = [hist EXCEPT !.timedOut = TRUE, !.timeoutBatch = batch']
    /\ UNCHANGED <<config, enrichment, stateFile, last_processed_timestamp, storage, clock,
                   waited, mode, after, tracks, ret, pbAttempt, upAttempt,
                   fetchAttempt, s3_key, saveVal, original_timestamp, result,
                   runs>>

\* Where an invocation goes once its loop and flush are over.
AfterLoop == IF mode = "run_once" THEN "done"
             ELSE IF mode = "backfill" THEN "restore" ELSE "called"

\* "Process remaining tracks" after the loop; with nothing remaining the
\* invocation goes on after the loop.
flush_remaining ==
    /\ pc = "flush"
    /\ IF batch # <<>>
       THEN /\ pc' = "upload"
            /\ ret' = "flush"
            /\ pbAttempt' = 1
            /\ upAttempt' = 1
            /\ s3_key' = NoKey
       ELSE /\ pc' = AfterLoop
            /\ UNCHANGED <<ret, pbAttempt, upAttempt, s3_key>>
    /\ UNCHANGED <<config, enrichment, stateFile, last_processed_timestamp, storage, clock,
                   waited, mode, after, tracks, pos, batch, fetchAttempt, saveVal,
                   original_timestamp, result, runs, hist>>

\* except_drain as it would be if the except clause only logged the error.
except_no_drain ==
    /\ pc = "except"
    /\ pc' = "done"
    /\ UNCHANGED <<config, enrichment, stateFile, last_processed_timestamp, storage, clock,
                   waited, mode, locals, result, runs, hist>>

\* fetch_and_process_new_tracks: except Exception: "Process any remaining batch
\* on error".
except_drain ==
    /\ pc = "except"
    /\ IF batch # <<>>
       THEN /\ pc' = "upload"
            /\ ret' = "drain"
            /\ pbAttempt' = 1
            /\ upAttempt' = 1
            /\ s3_key' = NoKey
       ELSE /\ pc' = "done"
            /\ UNCHANGED <<ret, pbAttempt, upAttempt, s3_key>>
    /\ UNCHANGED <<config, enrichment, stateFile, last_processed_timestamp, storage, clock,
                   waited, mode, after, tracks, pos, batch, fetchAttempt, saveVal,
                   original_timestamp, result, runs, hist>>

\* ---------------------------------------------------------- process_batch

\* The seconds utcnow() can show at the next upload: a later one after a sleep of
\* a second or more, else the same one or a later one.
UploadSeconds == IF waited THEN {clock + 1} ELSE {clock, clock + 1}

\* __init__ constructs the ArtistGenreProcessor exactly when
\* enable_artist_genre_processing is set, so the two tests of process_batch are
\* one: the processor exists.
enable_artist_genre_processing == epc # "dead"

\* upload_tracks_batch: put_object succeeded and the key is returned; then
\* process_batch goes on to the artist-genre processing when enabled, and to
\* update_last_processed_timestamp(tracks[-1] time).
upload_tracks_batch_ok ==
    /\ pc = "upload"
    /\ \E t \in UploadSeconds :
          /\ t <= MaxClock
          /\ clock' = t
          /\ s3_key' = generate_s3_key(t, Len(batch))
          /\ storage' = put_object(s3_key', batch)
          /\ hist' = [Attempt(hist, 0) EXCEPT
                          !.overwrote = @ \/ Clobbered(s3_key', batch) # {}]
    /\ waited' = FALSE
    /\ saveVal' = Last(batch)
    /\ pc' = IF enable_artist_genre_processing THEN "enrich" ELSE "save_open"
    /\ UNCHANGED <<config, enrichment, stateFile, last_processed_timestamp, mode, after, tracks,
                   pos, batch, ret, pbAttempt, upAttempt, fetchAttempt,
                   original_timestamp, result, runs>>

\* put_object raised; tenacity waits (>= 4 s) and calls upload_tracks_batch again.
upload_tracks_batch_retry ==
    /\ pc = "upload"
    /\ upAttempt < MaxAttempts
    /\ upAttempt' = upAttempt + 1
    /\ waited' = TRUE
    /\ hist' = Attempt(hist, RetryWaitSeconds)
    /\ UNCHANGED <<config, enrichment, stateFile, last_processed_timestamp, storage, clock, pc,
                   mode, after, tracks, pos, batch, ret, pbAttempt, fetchAttempt,
                   s3_key, saveVal, original_timestamp, result, runs>>

\* upload_tracks_batch raised RetryError; process_batch logs and re-raises, and
\* tenacity waits and calls process_batch again.
process_batch_retry ==
    /\ pc = "upload"
    /\ upAttempt = MaxAttempts
    /\ pbAttempt < MaxAttempts
    /\ pbAttempt' = pbAttempt + 1
    /\ upAttempt' = 1
    /\ waited' = TRUE
    /\ hist' = Attempt(hist, RetryWaitSeconds)
    /\ UNCHANGED <<config, enrichment, stateFile, last_processed_timestamp, storage, clock, pc,
                   mode, after, tracks, pos, batch, ret, fetchAttempt, s3_key,
                   saveVal, original_timestamp, result, runs>>

\* process_batch_raise as it would be if the timestamp were updated whether or not
\* the upload returned a key.
process_batch_raise_commits ==
    /\ pc = "upload"
    /\ upAttempt = MaxAttempts
    /\ pbAttempt = MaxAttempts
    /\ saveVal' = Last(batch)
    /\ pc' = "save_open"
    /\ \E elapsed \in 0..1 :
          hist' = [(IF pc' = "except" THEN Attempt(hist, elapsed) ELSE NoAttempts(hist))
                      EXCEPT !.upFailed = TRUE,
                             !.storageAtFail = IF hist.upFailed THEN @ ELSE storage,
                             !.failedBatch = IF hist.upFailed THEN @ ELSE batch]
    /\ UNCHANGED <<config, enrichment, stateFile, last_processed_timestamp, storage, clock,
                   waited, mode, after, tracks, pos, batch, ret, pbAttempt,
                   upAttempt, fetchAttempt, s3_key, original_timestamp, result,
                   runs>>

\* process_batch_raise as it would be if the loop skipped the failed batch and
\* went on with the next one.
process_batch_raise_continues ==
    /\ pc = "upload"
    /\ upAttempt = MaxAttempts
    /\ pbAttempt = MaxAttempts
    /\ batch' = <<>>
    /\ pc' = "fetch"
    /\ after' = Last(batch)
    /\ fetchAttempt' = 1
    /\ \E elapsed \in 0..1 :
          hist' = [(IF pc' = "except" THEN Attempt(hist, elapsed) ELSE NoAttempts(hist))
                      EXCEPT !.upFailed = TRUE,
                             !.storageAtFail = IF hist.upFailed THEN @ ELSE storage,
                             !.failedBatch = IF hist.upFailed THEN @ ELSE batch]
    /\ UNCHANGED <<config, enrichment, stateFile, last_processed_timestamp, storage, clock,
                   waited, mode, tracks, pos, ret, pbAttempt, upAttempt, s3_key,
                   saveVal, original_timestamp, result, runs>>

\* The last attempt of process_batch raised: RetryError reaches the caller. In
\* the loop or the flush of run_once that is the except clause; in the drain it
\* is logged; in backfill the except clause logs it.
process_batch_raise ==
    /\ pc = "upload"
    /\ upAttempt = MaxAttempts
    /\ pbAttempt = MaxAttempts
    /\ pc' = IF mode = "run_once" /\ ret # "drain" THEN "except" ELSE AfterLoop
    /\ \E elapsed \in 0..1 :
          hist' = [(IF pc' = "except" THEN Attempt(hist, elapsed) ELSE NoAttempts(hist))
                      EXCEPT !.upFailed = TRUE,
                             !.storageAtFail = IF hist.upFailed THEN @ ELSE storage,
                             !.failedBatch = IF hist.upFailed THEN @ ELSE batch]
    /\ UNCHANGED <<config, enrichment, stateFile, last_processed_timestamp, storage, clock,
                   waited, mode, after, tracks, pos, batch, ret, pbAttempt,
                   upAttempt, fetchAttempt, s3_key, saveVal, original_timestamp,
                   result, runs>>

\* save_state: open(self.state_file, 'w') truncates the file.
save_state_open ==
    /\ pc = "save_open"
    /\ stateFile' = Torn
    /\ hist' = [hist EXCEPT !.inflight = saveVal]
    /\ pc' = "save_dump"
    /\ UNCHANGED <<config, enrichment, last_processed_timestamp, storage, clock, waited, mode,
                   locals, result, runs>>

\* save_state: json.dump wrote the state and the file is closed; then
\* self.last_processed_timestamp = timestamp.
save_state_dump ==
    /\ pc = "save_dump"
    /\ stateFile' = saveVal
    /\ last_processed_timestamp' = saveVal
    /\ hist' = [hist EXCEPT !.durable = saveVal]
    /\ pc' = IF ret = "restore" THEN "returned" ELSE "pb_true"
    /\ UNCHANGED <<config, enrichment, storage, clock, waited, mode, locals, result, runs>>

\* process_batch returned True: in the loop the batch is cleared and the
\* generator resumes; after the flush or the drain the cycle is complete.
process_batch_true ==
    /\ pc = "pb_true"
    /\ IF ret = "loop"
       THEN /\ batch' = <<>>
            /\ GeneratorResume(pos)
       ELSE /\ pc' = AfterLoop
            /\ UNCHANGED <<batch, after, fetchAttempt>>
    /\ hist' = NoAttempts(hist)
    /\ UNCHANGED <<config, enrichment, stateFile, last_processed_timestamp, storage, clock,
                   waited, mode, tracks, pos, ret, pbAttempt, upAttempt, s3_key,
                   saveVal, original_timestamp, result, runs>>

\* -------------------------------------------------------- end of invocation
ResetLocals ==
    /\ after' = None
    /\ tracks' = <<>>
    /\ pos' = 0
    /\ batch' = <<>>
    /\ ret' = "none"
    /\ pbAttempt' = 1
    /\ upAttempt' = 1
    /\ fetchAttempt' = 1
    /\ s3_key' = NoKey
    /\ saveVal' = None
    /\ original_timestamp' = None

run_once_result == "true"

\* run_once: fetch_and_process_new_tracks returned its count; return True.
run_once_return ==
    /\ pc = "done"
    /\ result' = run_once_result
    /\ pc' = "idle"
    /\ mode' = "none"
    /\ ResetLocals
    /\ UNCHANGED <<config, enrichment, stateFile, last_processed_timestamp, storage, clock,
                   waited, runs, hist>>

\* backfill_restore as it would be without the restore: the backfill returns and
\* leaves the watermark at its last batch.
backfill_restore_skipped ==
    /\ pc = "restore"
    /\ ~Falsy(original_timestamp)
    /\ last_processed_timestamp # None
    /\ original_timestamp > last_processed_timestamp
    /\ pc' = "returned"
    /\ UNCHANGED <<config, enrichment, stateFile, last_processed_timestamp, storage,
                   clock, waited, mode, locals, result, runs, hist>>

\* backfill_historical_data: "Restore original timestamp if it was higher".
\* original_timestamp > None raises TypeError.
backfill_restore ==
    /\ pc = "restore"
    /\ ~Falsy(original_timestamp)
    /\ last_processed_timestamp # None
    /\ original_timestamp > last_processed_timestamp
    /\ saveVal' = original_timestamp
    /\ ret' = "restore"
    /\ pc' = "save_open"
    /\ UNCHANGED <<config, enrichment, stateFile, last_processed_timestamp, storage, clock,
                   waited, mode, after, tracks, pos, batch, pbAttempt, upAttempt,
                   fetchAttempt, s3_key, original_timestamp, result, runs, hist>>

backfill_raise ==
    /\ pc = "restore"
    /\ ~Falsy(original_timestamp)
    /\ last_processed_timestamp = None
    /\ result' = "raised"
    /\ pc' = "idle"
    /\ mode' = "none"
    /\ ResetLocals
    /\ UNCHANGED <<config, enrichment, stateFile, last_processed_timestamp, storage, clock,
                   waited, runs, hist>>

backfill_return ==
    /\ \/ pc = "returned"
       \/ /\ pc = "restore"
          /\ \/ Falsy(original_timestamp)
             \/ /\ last_processed_timestamp # None
                /\ original_timestamp <= last_processed_timestamp
    /\ result' = "returned"
    /\ pc' = "idle"
    /\ mode' = "none"
    /\ ResetLocals
    /\ UNCHANGED <<config, enrichment, stateFile, last_processed_timestamp, storage, clock,
                   waited, runs, hist>>

\* The process dies (kill, power loss) at any point of an invocation: what is
\* in memory is lost, the files and the bucket stay as they are.
crash ==
    /\ pc # "idle"
    /\ result' = "crashed"
    /\ pc' = "idle"
    /\ mode' = "none"
    /\ last_processed_timestamp' = None
    /\ ResetLocals
    /\ hist' = NoAttempts(hist)
    /\ UNCHANGED <<config, enrichment, stateFile, storage, clock, waited, runs>>

\* ------------------------------------------------------------ specifications
Next ==
    \/ run_once_start
    \/ run_once_preconditions_fail
    \/ run_once_preconditions_ok
    \/ fetch_and_process_new_tracks_start
    \/ backfill_historical_data_start
    \/ get_recent_tracks_ok
    \/ get_recent_tracks_retry
    \/ get_recent_tracks_raise
    \/ append_track
    \/ append_track_timeout
    \/ flush_remaining
    \/ except_drain
    \/ upload_tracks_batch_ok
    \/ upload_tracks_batch_retry
    \/ process_batch_retry
    \/ process_batch_raise
    \/ save_state_open
    \/ save_state_dump
    \/ process_batch_true
    \/ run_once_return
    \/ backfill_restore
    \/ backfill_raise
    \/ backfill_return

\* Invocations that run to their end, one after the other.
Spec == Init /\ [][Next]_vars

\* The same, with the process dying at any step.
SpecCrash == Init /\ [][Next \/ crash]_vars

\* put_object stored the object but its reply did not arrive (read timeout,
\* connection reset): upload_tracks_batch logs and re-raises, tenacity waits
\* (>= 4 s) and calls it again.
upload_tracks_batch_reply_lost ==
    /\ pc = "upload"
    /\ upAttempt < MaxAttempts
    /\ upAttempt' = upAttempt + 1
    /\ \E t \in UploadSeconds :
          /\ t <= MaxClock
          /\ clock' = t
          /\ LET key == generate_s3_key(t, Len(batch))
             IN /\ storage' = put_object(key, batch)
                /\ hist' = [Attempt(hist, RetryWaitSeconds) EXCEPT
                               !.overwrote = @ \/ Clobbered(key, batch) # {}]
    /\ waited' = TRUE
    /\ UNCHANGED <<config, enrichment, stateFile, last_processed_timestamp, pc, mode,
                   after, tracks, pos, batch, ret, pbAttempt, fetchAttempt, s3_key,
                   saveVal, original_timestamp, result, runs>>

\* The state file holds no watermark or any integer: the event time of a
\* record, a cursor, or zero.
InitStored ==
    /\ source \in Sources
    /\ batchSize \in 1..MaxBatchSize
    /\ stateFile \in {NoFile} \cup {0} \cup Cursors
    /\ IngestionIdle
    /\ hist = [NoHist EXCEPT !.durable = get_last_processed_timestamp_raw(stateFile),
                            !.inflight = get_last_processed_timestamp_raw(stateFile),
                            !.w0 = get_last_processed_timestamp_raw(stateFile)]
    /\ EnrichmentOff

\* Invocations that run to their end, over every stored watermark.
SpecStored == InitStored /\ [][Next]_vars

\* Invocations that run to their end, with writes whose reply is lost.
SpecReplyLost == Init /\ [][Next \/ upload_tracks_batch_reply_lost]_vars

\* ------------------------------------------------- the artist ledger
\* The ingestion side stands still while the processor is exercised.
ingestion == <<source, stateFile, last_processed_timestamp, storage, pc, mode,
               locals, result, runs, hist, scheduler>>

elocals == <<eret, new_artist_ids, subStart, transformed_artists, pabAttempt,
             uaAttempt, processed_count>>

ResetElocals ==
    /\ eret' = "none"
    /\ new_artist_ids' = <<>>
    /\ subStart' = 0
    /\ transformed_artists' = <<>>
    /\ pabAttempt' = 1
    /\ uaAttempt' = 1
    /\ processed_count' = 0

\* generate_artist_s3_key: prefix/YYYY/MM/DD/spotify_artists_YYYYMMDD_HHMMSS_batch_<n>.json.gz
generate_artist_s3_key(timestamp, n) == <<timestamp, n>>

\* The ids of the sub-batches of this invocation that ran to their end, kept
\* apart once a later sub-batch fails or the process stops.
Isolate(h) == [h EXCEPT !.isolated = @ \cup h.done,
                        !.isolatedArtifacts = @ \cup h.doneArtifacts]

\* process_new_artists_from_tracks has returned to its caller.
Returned(h) == [h EXCEPT !.returned = TRUE]

\* The except clause of process_new_artists_from_tracks caught the error of a
\* sub-batch and the function returns processed_count.
Failed(h) == [Returned(Isolate(h)) EXCEPT !.failed = TRUE]

\* No invocation of process_new_artists_from_tracks is to be looked back at.
Forgotten(h) == [h EXCEPT !.returned = FALSE, !.ledgerBefore = {},
                          !.artistStorage0 = {}, !.sent = {}, !.saveFailed = FALSE,
                          !.failed = FALSE]

\* A process starts and constructs ArtistGenreProcessor: __init__ loads the
\* ledger. Starting a process takes more than a second.
ArtistGenreProcessor_init ==
    /\ epc = "dead"
    /\ epc' = "ready"
    /\ processed_artists' = _load_processed_artists(ledgerFile)
    /\ waited' = TRUE
    /\ ehist' = [ehist EXCEPT !.restarted = TRUE]
    /\ UNCHANGED <<ingestion, batchSize, clock, ledgerFile, artistStorage, elocals,
                   invocations>>

\* process_new_artists_from_tracks(track_items) up to its first sub-batch;
\* returns 0 at once for no tracks or no new artists.
process_new_artists_from_tracks(track_items) ==
    /\ LET new == extract_new_artists_from_tracks(track_items)
       IN IF track_items = <<>> \/ new = <<>>
          THEN /\ epc' = "ready"
               /\ ResetElocals
          ELSE /\ epc' = "fetch"
               /\ eret' = "tracks"
               /\ new_artist_ids' = new
               /\ subStart' = 0
               /\ transformed_artists' = <<>>
               /\ pabAttempt' = 1
               /\ uaAttempt' = 1
               /\ processed_count' = 0
    /\ ehist' = [ehist EXCEPT !.done = {}, !.doneArtifacts = {}, !.uploaded = {},
                              !.returned = (epc' = "ready"),
                              !.ledgerBefore = _load_processed_artists(ledgerFile),
                              !.artistStorage0 = artistStorage,
                              !.sent = {}, !.failed = FALSE]
    /\ UNCHANGED <<clock, waited, ledgerFile, processed_artists, artistStorage>>

\* The processor is called on its own with some track items.
process_new_artists_from_tracks_start ==
    /\ epc = "ready"
    /\ invocations < MaxInvocations
    /\ invocations' = invocations + 1
    /\ \E track_items \in TrackItems : process_new_artists_from_tracks(track_items)
    /\ UNCHANGED <<ingestion, batchSize>>

\* process_artist_batch(batch_ids): get_multiple_artists returned (it swallows
\* an API error and sleeps 1 s after a call that worked), every artist was
\* transformed and added to processed_artists; _save_processed_artists is next.
process_artist_batch_ok ==
    /\ epc = "fetch"
    /\ \E raw \in RawArtists(batch_ids) :
          /\ transformed_artists' = raw
          /\ processed_artists' = processed_artists \cup Range(raw)
          /\ waited' = (raw # <<>> \/ waited)
          /\ ehist' = [ehist EXCEPT !.reenriched =
                          @ \/ Range(raw) \cap ehist.isolated # {},
                                    !.sent = @ \cup Range(batch_ids),
                                    !.removed = @ \ Range(raw)]
    /\ epc' = "ledger_open"
    /\ UNCHANGED <<ingestion, batchSize, clock, ledgerFile, artistStorage, eret,
                   new_artist_ids, subStart, pabAttempt, uaAttempt,
                   processed_count, invocations>>

\* process_artist_batch: transform_artist_data raised on the j-th artist; the
\* artists before it are already in processed_artists, nothing is saved.
process_artist_batch_transform_raises ==
    /\ epc = "fetch"
    /\ \E raw \in RawArtists(batch_ids) : \E j \in 1..Len(raw) :
          /\ processed_artists' = processed_artists \cup Range(SubSeq(raw, 1, j - 1))
          /\ ehist' = [ehist EXCEPT !.reenriched =
                          @ \/ Range(SubSeq(raw, 1, j)) \cap ehist.isolated # {},
                                    !.sent = @ \cup Range(batch_ids)]
    /\ waited' = TRUE
    /\ epc' = "pab_failed"
    /\ UNCHANGED <<ingestion, batchSize, clock, ledgerFile, artistStorage, elocals,
                   invocations>>

\* tenacity waits (>= 4 s) and calls process_artist_batch again.
process_artist_batch_retry ==
    /\ epc = "pab_failed"
    /\ pabAttempt < MaxAttempts
    /\ pabAttempt' = pabAttempt + 1
    /\ waited' = TRUE
    /\ epc' = "fetch"
    /\ UNCHANGED <<ingestion, batchSize, clock, ledgerFile, processed_artists,
                   artistStorage, eret, new_artist_ids, subStart,
                   transformed_artists, uaAttempt, processed_count, invocations,
                   ehist>>

\* RetryError leaves the for loop of process_new_artists_from_tracks; its
\* except clause logs and processed_count is returned.
process_artist_batch_raise ==
    /\ epc = "pab_failed"
    /\ pabAttempt = MaxAttempts
    /\ epc' = "ready"
    /\ ResetElocals
    /\ ehist' = Failed(ehist)
    /\ UNCHANGED <<ingestion, batchSize, clock, waited, ledgerFile,
                   processed_artists, artistStorage, invocations>>

\* Where control goes after _save_processed_artists.
AfterSave == IF eret = "force" THEN "classify"
             ELSE IF transformed_artists # <<>> THEN "upload_artists" ELSE "sleep"

\* _save_processed_artists: open(self.state_file, 'w') truncates the file.
_save_processed_artists_open ==
    /\ epc = "ledger_open"
    /\ ledgerFile' = TornLedger
    /\ epc' = "ledger_dump"
    /\ UNCHANGED <<ingestion, batchSize, clock, waited, processed_artists,
                   artistStorage, elocals, invocations, ehist>>

\* _save_processed_artists_dump as it would be if the processor kept its list in
\* the pipeline's state file: that file then holds no last_processed_timestamp.
_save_processed_artists_dump_shared ==
    /\ epc = "ledger_dump"
    /\ ledgerFile' = LedgerOf(processed_artists)
    /\ stateFile' = NoFile
    /\ ehist' = [ehist EXCEPT !.ever = @ \cup processed_artists]
    /\ epc' = AfterSave
    /\ UNCHANGED <<source, last_processed_timestamp, storage, pc, mode, locals,
                   result, runs, hist, scheduler, batchSize, clock, waited,
                   processed_artists, artistStorage, elocals, invocations>>

\* _save_processed_artists: json.dump wrote the list and the file is closed.
_save_processed_artists_dump ==
    /\ epc = "ledger_dump"
    /\ ledgerFile' = LedgerOf(processed_artists)
    /\ ehist' = [ehist EXCEPT !.ever = @ \cup processed_artists]
    /\ epc' = AfterSave
    /\ UNCHANGED <<ingestion, batchSize, clock, waited, processed_artists,
                   artistStorage, elocals, invocations>>

\* _save_processed_artists: open or json.dump raised (disk full, permissions);
\* the except clause logs it and the caller goes on.
_save_processed_artists_fails ==
    /\ epc \in {"ledger_open", "ledger_dump"}
    /\ ehist' = [ehist EXCEPT !.tornLost = @ \/ epc = "ledger_dump",
                              !.saveFailed = TRUE]
    /\ epc' = AfterSave
    /\ UNCHANGED <<ingestion, batchSize, clock, waited, ledgerFile,
                   processed_artists, artistStorage, elocals, invocations>>

\* upload_artists_to_s3: put_object succeeded and the key is returned.
upload_artists_to_s3_ok ==
    /\ epc = "upload_artists"
    /\ \E t \in UploadSeconds :
          /\ t <= MaxClock
          /\ clock' = t
          /\ LET key == generate_artist_s3_key(t, Len(transformed_artists))
                 artifact == [key |-> key, recs |-> transformed_artists]
             IN /\ artistStorage' = {a \in artistStorage : a.key # key} \cup {artifact}
                /\ ehist' = [ehist EXCEPT !.uploaded = {artifact}]
    /\ waited' = FALSE
    /\ processed_count' = processed_count + Len(transformed_artists)
    /\ epc' = IF eret = "force" THEN "force_done" ELSE "sleep"
    /\ UNCHANGED <<ingestion, batchSize, ledgerFile, processed_artists, eret,
                   new_artist_ids, subStart, transformed_artists, pabAttempt,
                   uaAttempt, invocations>>

\* put_object raised; tenacity waits (>= 4 s) and calls upload_artists_to_s3 again.
upload_artists_to_s3_retry ==
    /\ epc = "upload_artists"
    /\ uaAttempt < MaxAttempts
    /\ uaAttempt' = uaAttempt + 1
    /\ waited' = TRUE
    /\ UNCHANGED <<ingestion, batchSize, clock, ledgerFile, processed_artists,
                   artistStorage, epc, eret, new_artist_ids, subStart,
                   transformed_artists, pabAttempt, processed_count, invocations,
                   ehist>>

\* RetryError reaches the caller's except clause, which logs it and returns.
upload_artists_to_s3_raise ==
    /\ epc = "upload_artists"
    /\ uaAttempt = MaxAttempts
    /\ epc' = IF eret = "force" THEN "force_done" ELSE "ready"
    /\ ResetElocals
    /\ ehist' = IF eret = "force" THEN ehist ELSE Failed(ehist)
    /\ UNCHANGED <<ingestion, batchSize, clock, waited, ledgerFile,
                   processed_artists, artistStorage, invocations>>

\* time.sleep(1.0), then the next sub-batch or the return of processed_count.
next_sub_batch ==
    /\ epc = "sleep"
    /\ waited' = TRUE
    /\ IF subStart + SubBatchSize >= Len(new_artist_ids)
       THEN /\ epc' = "ready"
            /\ ResetElocals
       ELSE /\ epc' = "fetch"
            /\ subStart' = subStart + SubBatchSize
            /\ transformed_artists' = <<>>
            /\ pabAttempt' = 1
            /\ uaAttempt' = 1
            /\ UNCHANGED <<eret, new_artist_ids, processed_count>>
    /\ ehist' = [(IF Range(transformed_artists) \subseteq _load_processed_artists(ledgerFile)
                  THEN [ehist EXCEPT !.done = @ \cup Range(transformed_artists),
                                     !.doneArtifacts = @ \cup ehist.uploaded,
                                     !.uploaded = {}]
                  ELSE [ehist EXCEPT !.uploaded = {}])
                    EXCEPT !.returned = (epc' = "ready")]
    /\ UNCHANGED <<ingestion, batchSize, clock, ledgerFile, processed_artists,
                   artistStorage, invocations>>

\* force_reprocess_artists(artist_ids) in a process of its own: the processor is
\* constructed, the ids are removed from processed_artists and the ledger is
\* saved.
force_reprocess_artists_start ==
    /\ epc = "dead"
    /\ invocations < MaxInvocations
    /\ invocations' = invocations + 1
    /\ \E artist_ids \in RawArtists([a \in Artists |-> a]) \ {<<>>} :
          /\ new_artist_ids' = artist_ids
          /\ processed_artists' = _load_processed_artists(ledgerFile) \ Range(artist_ids)
          /\ ehist' = [Forgotten(ehist) EXCEPT !.ever = @ \ Range(artist_ids),
                                    !.ledgerBefore = _load_processed_artists(ledgerFile),
                                    !.isolated = @ \ Range(artist_ids),
                                    !.done = {}, !.doneArtifacts = {},
                                    !.uploaded = {},
                                    !.forced = TRUE]
    /\ eret' = "force"
    /\ epc' = "ledger_open"
    /\ waited' = TRUE
    /\ UNCHANGED <<ingestion, batchSize, clock, ledgerFile, artistStorage,
                   subStart, transformed_artists, pabAttempt, uaAttempt,
                   processed_count>>

\* force_reprocess_artists: the classifier returned its artists for the batch
\* (none when it failed); they are transformed and uploaded.
force_reprocess_artists_batch ==
    /\ epc = "classify"
    /\ \E enhanced \in RawArtists(new_artist_ids) :
          /\ transformed_artists' = enhanced
          /\ epc' = IF enhanced = <<>> THEN "force_done" ELSE "upload_artists"
    /\ uaAttempt' = 1
    /\ waited' = TRUE
    /\ UNCHANGED <<ingestion, batchSize, clock, ledgerFile, processed_artists,
                   artistStorage, eret, new_artist_ids, subStart, pabAttempt,
                   processed_count, invocations, ehist>>

\* The process that holds the processor ends.
process_exit ==
    /\ epc \in {"ready", "force_done"}
    /\ epc' = "dead"
    /\ processed_artists' = {}
    /\ ResetElocals
    /\ ehist' = Forgotten(ehist)
    /\ UNCHANGED <<ingestion, batchSize, clock, waited, ledgerFile, artistStorage,
                   invocations>>

\* The process dies at any point: what is in memory is lost, the ledger file
\* and the bucket stay as they are.
processor_crash ==
    /\ epc \notin {"dead", "ready", "force_done"}
    /\ epc' = "dead"
    /\ processed_artists' = {}
    /\ ResetElocals
    /\ ehist' = [Forgotten(IF eret = "tracks" THEN Isolate(ehist) ELSE ehist)
                    EXCEPT !.tornLost = @ \/ epc = "ledger_dump"]
    /\ UNCHANGED <<ingestion, batchSize, clock, waited, ledgerFile, artistStorage,
                   invocations>>

InitLedger ==
    /\ source = <<>>
    /\ batchSize \in 1..ArtistPageCap
    /\ stateFile = NoFile
    /\ IngestionIdle
    /\ hist = NoHist
    /\ ledgerFile \in {NoLedger, LedgerOf({1})}
    /\ processed_artists = {}
    /\ artistStorage = {}
    /\ epc = "dead"
    /\ invocations = 0
    /\ ehist = [NoEhist EXCEPT !.ever = _load_processed_artists(ledgerFile)]
    /\ EnrichmentLocals

NextLedger ==
    \/ ArtistGenreProcessor_init
    \/ process_new_artists_from_tracks_start
    \/ process_artist_batch_ok
    \/ process_artist_batch_transform_raises
    \/ process_artist_batch_retry
    \/ process_artist_batch_raise
    \/ _save_processed_artists_open
    \/ _save_processed_artists_dump
    \/ _save_processed_artists_fails
    \/ upload_artists_to_s3_ok
    \/ upload_artists_to_s3_retry
    \/ upload_artists_to_s3_raise
    \/ next_sub_batch
    \/ force_reprocess_artists_start
    \/ force_reprocess_artists_batch
    \/ process_exit
    \/ processor_crash

\* The processor alone: enrichment invocations, forced reprocessing, failing
\* ledger writes and the process dying at any step.
SpecLedger == InitLedger /\ [][NextLedger]_vars

\* ------------------------------------------------ the entity operations
\* backfill_artist_genre_data(days) on a processor that exists (the pipeline's,
\* or the one it constructs for the call): the tracks collected from the
\* listening history are handed to process_new_artists_from_tracks.
backfill_artist_genre_data ==
    /\ epc = "ready"
    /\ invocations < MaxInvocations
    /\ invocations' = invocations + 1
    /\ \E all_tracks \in TrackItems : process_new_artists_from_tracks(all_tracks)
    /\ UNCHANGED <<ingestion, batchSize>>

\* The state file holds a watermark or none when the entity operations run.
InitEntity ==
    /\ source = <<>>
    /\ batchSize = 1
    /\ stateFile \in {NoFile, MaxRecords + 1}
    /\ IngestionIdle
    /\ hist = NoHist
    /\ ledgerFile \in {NoLedger, LedgerOf({1})}
    /\ processed_artists = {}
    /\ artistStorage = {}
    /\ epc = "dead"
    /\ invocations = 0
    /\ ehist = [NoEhist EXCEPT !.ever = _load_processed_artists(ledgerFile)]
    /\ EnrichmentLocals

NextEntity ==
    \/ ArtistGenreProcessor_init
    \/ process_new_artists_from_tracks_start
    \/ backfill_artist_genre_data
    \/ process_artist_batch_ok
    \/ process_artist_batch_transform_raises
    \/ process_artist_batch_retry
    \/ process_artist_batch_raise
    \/ _save_processed_artists_open
    \/ _save_processed_artists_dump
    \/ _save_processed_artists_fails
    \/ upload_artists_to_s3_ok
    \/ upload_artists_to_s3_retry
    \/ upload_artists_to_s3_raise
    \/ next_sub_batch
    \/ force_reprocess_artists_start
    \/ force_reprocess_artists_batch
    \/ process_exit

\* process_new_artists_from_tracks, backfill_artist_genre_data and
\* force_reprocess_artists, each run to its end.
SpecEntity == InitEntity /\ [][NextEntity]_vars

\* ------------------------------------------ extract_new_artists_from_tracks
\* extract_new_artists_from_tracks(track_items) is called on a processor and its
\* list is kept in new_artist_ids.
extract_new_artists_from_tracks_call ==
    /\ epc = "ready"
    /\ \E track_items \in TrackItems :
          /\ new_artist_ids' = extract_new_artists_from_tracks(track_items)
          /\ ehist' = [ehist EXCEPT !.track_items = track_items]
    /\ UNCHANGED <<ingestion, batchSize, clock, waited, ledgerFile,
                   processed_artists, artistStorage, epc, eret, subStart,
                   transformed_artists, pabAttempt, uaAttempt, processed_count,
                   invocations>>

\* A processor that has loaded any ledger.
InitExtract ==
    /\ source = <<>>
    /\ batchSize = 1
    /\ stateFile = NoFile
    /\ IngestionIdle
    /\ hist = NoHist
    /\ ledgerFile \in {NoLedger} \cup {LedgerOf(ids) : ids \in SUBSET Artists}
    /\ processed_artists = _load_processed_artists(ledgerFile)
    /\ artistStorage = {}
    /\ epc = "ready"
    /\ invocations = 0
    /\ ehist = NoEhist
    /\ EnrichmentLocals

SpecExtract == InitExtract /\ [][extract_new_artists_from_tracks_call]_vars

\* ------------------------------------- ingestion with artist-genre processing
\* process_batch, after the upload returned: "if self.enable_artist_genre_processing
\* and self.artist_genre_processor", process_new_artists_from_tracks(tracks) is
\* called with the raw tracks of the batch; each is by one artist here.
process_batch_enrich ==
    /\ pc = "enrich"
    /\ epc = "ready"
    /\ pc' = "enriching"
    /\ \E track_items \in [1..Len(batch) -> {<<a>> : a \in Artists}] :
          process_new_artists_from_tracks(track_items)
    /\ UNCHANGED <<config, stateFile, last_processed_timestamp, storage, mode,
                   locals, result, runs, hist, invocations>>

\* process_batch_enrich_return as it would be if a failed sub-batch failed the
\* track batch: process_batch raises instead of updating the timestamp.
process_batch_enrich_return_raises ==
    /\ pc = "enriching"
    /\ epc = "ready"
    /\ pc' = IF ehist.failed THEN "except" ELSE "save_open"
    /\ UNCHANGED <<config, enrichment, stateFile, last_processed_timestamp, storage,
                   clock, waited, mode, locals, result, runs, hist>>

\* process_new_artists_from_tracks returned its count (whatever happened in it);
\* process_batch goes on to "if s3_key: update_last_processed_timestamp".
process_batch_enrich_return ==
    /\ pc = "enriching"
    /\ epc = "ready"
    /\ pc' = "save_open"
    /\ UNCHANGED <<config, enrichment, stateFile, last_processed_timestamp, storage,
                   clock, waited, mode, locals, result, runs, hist>>

\* SpotifyDataPipeline(enable_artist_genre_processing=True): the processor is
\* constructed with the pipeline and has loaded the ledger.
InitEnrich ==
    /\ source \in {s \in Sources : Len(s) <= MaxTracks}
    /\ batchSize \in 1..MaxTracks
    /\ stateFile = NoFile
    /\ IngestionIdle
    /\ hist = NoHist
    /\ ledgerFile \in {NoLedger, LedgerOf({1})}
    /\ processed_artists = _load_processed_artists(ledgerFile)
    /\ artistStorage = {}
    /\ epc = "ready"
    /\ invocations = 0
    /\ ehist = [NoEhist EXCEPT !.ever = _load_processed_artists(ledgerFile),
                              !.restarted = TRUE]
    /\ EnrichmentLocals

NextEnrich ==
    \/ run_once_start
    \/ run_once_preconditions_fail
    \/ run_once_preconditions_ok
    \/ fetch_and_process_new_tracks_start
    \/ get_recent_tracks_ok
    \/ get_recent_tracks_retry
    \/ get_recent_tracks_raise
    \/ append_track
    \/ append_track_timeout
    \/ flush_remaining
    \/ except_drain
    \/ upload_tracks_batch_ok
    \/ upload_tracks_batch_retry
    \/ process_batch_retry
    \/ process_batch_raise
    \/ process_batch_enrich
    \/ process_artist_batch_ok
    \/ process_artist_batch_transform_raises
    \/ process_artist_batch_retry
    \/ process_artist_batch_raise
    \/ _save_processed_artists_open
    \/ _save_processed_artists_dump
    \/ _save_processed_artists_fails
    \/ upload_artists_to_s3_ok
    \/ upload_artists_to_s3_retry
    \/ upload_artists_to_s3_raise
    \/ next_sub_batch
    \/ process_batch_enrich_return
    \/ save_state_open
    \/ save_state_dump
    \/ process_batch_true
    \/ run_once_return

\* run_once invocations of a pipeline with artist-genre processing enabled.
SpecEnrich == InitEnrich /\ [][NextEnrich]_vars

\* ------------------------------------------------------------ run_continuous
\* What run_once_start records of the invocation that begins.
Began(h) == [h EXCEPT !.upFailed = FALSE, !.fetchFailed = FALSE,
                      !.timedOut = FALSE, !.kind = "run_once",
                      !.runStart = None,
                      !.preRun = get_last_processed_timestamp,
                      !.storage0 = storage, !.storageAtFail = {},
                      !.failedBatch = <<>>, !.timeoutBatch = <<>>]

\* run_continuous: the job is scheduled and "self.run_once()" runs at once.
run_continuous ==
    /\ pc = "idle"
    /\ runs = 0
    /\ runs' = 1
    /\ mode' = "run_once"
    /\ pc' = "preconditions"
    /\ hist' = Began(hist)
    /\ UNCHANGED <<config, enrichment, stateFile, last_processed_timestamp, storage,
                   clock, waited, locals, result>>

\* The period of the job elapses, whatever the program is doing.
tick ==
    /\ runs >= 1
    /\ ~due
    /\ due' = TRUE
    /\ UNCHANGED <<source, batchSize, enrichment, stateFile,
                   last_processed_timestamp, storage, clock, waited, pc, mode,
                   locals, result, runs, hist>>

\* run_pending as it would be if the loop ended after a cycle that returned
\* False.
run_pending_unless_failed ==
    /\ pc = "idle"
    /\ result # "false"
    /\ runs >= 1
    /\ due
    /\ due' = FALSE
    /\ runs' = Min(runs + 1, MaxRuns)
    /\ mode' = "run_once"
    /\ pc' = "preconditions"
    /\ waited' = TRUE
    /\ hist' = Began(hist)
    /\ UNCHANGED <<source, batchSize, enrichment, stateFile,
                   last_processed_timestamp, storage, clock, locals, result>>

\* run_pending as it would be if the job ran on a thread of its own: a due job
\* is started whether or not the last one has returned.
run_pending_threaded ==
    /\ runs >= 1
    /\ due
    /\ due' = FALSE
    /\ runs' = Min(runs + 1, MaxRuns)
    /\ mode' = "run_once"
    /\ pc' = "preconditions"
    /\ waited' = TRUE
    /\ hist' = Began(hist)
    /\ UNCHANGED <<source, batchSize, enrichment, stateFile,
                   last_processed_timestamp, storage, clock, locals, result>>

\* The loop of run_continuous: schedule.run_pending() finds the job due and
\* calls run_once in the loop's own thread; the loop is back at run_pending
\* only after run_once and time.sleep(60) returned. runs stops counting at
\* MaxRuns.
run_pending ==
    /\ pc = "idle"
    /\ runs >= 1
    /\ due
    /\ due' = FALSE
    /\ runs' = Min(runs + 1, MaxRuns)
    /\ mode' = "run_once"
    /\ pc' = "preconditions"
    /\ waited' = TRUE
    /\ hist' = Began(hist)
    /\ UNCHANGED <<source, batchSize, enrichment, stateFile,
                   last_processed_timestamp, storage, clock, locals, result>>

InitContinuous ==
    /\ source \in Sources
    /\ batchSize \in 1..MaxTracks
    /\ stateFile = NoFile
    /\ IngestionIdle
    /\ hist = NoHist
    /\ EnrichmentOff

NextContinuous ==
    \/ run_continuous
    \/ tick
    \/ run_pending
    \/ run_once_preconditions_fail
    \/ run_once_preconditions_ok
    \/ fetch_and_process_new_tracks_start
    \/ get_recent_tracks_ok
    \/ get_recent_tracks_retry
    \/ get_recent_tracks_raise
    \/ append_track
    \/ append_track_timeout
    \/ flush_remaining
    \/ except_drain
    \/ upload_tracks_batch_ok
    \/ upload_tracks_batch_retry
    \/ process_batch_retry
    \/ process_batch_raise
    \/ save_state_open
    \/ save_state_dump
    \/ process_batch_true
    \/ run_once_return

\* main.py run-continuous: one thread runs the loop for ever; it always takes
\* its next step, and the period always elapses again.
SpecContinuous == InitContinuous /\ [][NextContinuous]_vars /\ WF_vars(NextContinuous)

\* ------------------------------------------------------------------ claims
RunOnceEnded == pc = "idle" /\ hist.kind = "run_once" /\ result = "true"

NewArtifacts == storage \ hist.storage0

C3_FailureReported ==
    (pc = "idle" /\ hist.kind = "run_once" /\ result # "none"
        /\ (hist.upFailed \/ hist.fetchFailed))
    => result = "false"

C5_PrefixConsistency ==
    (hist.kind = "run_once" /\ hist.runStart # None
        /\ get_last_processed_timestamp # None)
    => \A r \in Range(source) :
          (r > hist.runStart /\ r <= get_last_processed_timestamp) => InStorage(r)

\* C6: with a watermark persisted at the start and only run_once invoked,
\* whenever a run_once completes without a fetch failure, upload failure or
\* timeout (earlier runs may have crashed), every source record after that
\* first watermark is held by a stored artifact. Stated for batch_size within
\* the page limit and behaviours in which no artifact was overwritten.
C6_AtLeastOnce ==
    (RunOnceEnded /\ hist.w0 # None /\ ~hist.backfilled /\ ~hist.overwrote
        /\ batchSize <= PageCap
        /\ ~(hist.upFailed \/ hist.fetchFailed \/ hist.timedOut))
    => \A r \in Range(source) : r > hist.w0 => InStorage(r)

\* C7: whenever no invocation is running (so also after a crash at any step),
\* reading the state gives the watermark of the last completed write or the one
\* that was being written.
C7_NoTornRead ==
    pc = "idle" => get_last_processed_timestamp \in {hist.durable, hist.inflight}

\* C8: no put_object ever replaces an artifact by different records.
C8_NoKeyCollision == ~hist.overwrote

\* C9 -- Ledger append-only: an identifier that was once in the persisted ledger
\* and was not removed by force_reprocess is still in the persisted ledger
\* whenever an enrichment operation has returned or no process is running, and
\* is in processed_artists of every process that has loaded the ledger.
\* Violated: _save_processed_artists truncates the file before it writes, and
\* _load_processed_artists reads a truncated file as the empty set.
C9_LedgerAppendOnly ==
    epc \in {"dead", "ready"} =>
        /\ ehist.ever \subseteq _load_processed_artists(ledgerFile)
        /\ epc = "ready" => ehist.ever \subseteq processed_artists

\* C10 -- Enrichment isolation: once sub-batch k of an invocation has failed, or
\* the process has stopped during it, the identifiers of sub-batches 1..k-1 are
\* in the persisted ledger whenever no operation is running, their artifacts are
\* in storage, and none of them is fetched and transformed again.
\* Violated through the ledger write of C9: a process that stops in the write
\* of sub-batch k leaves a file that reads as empty.
C10_EnrichmentIsolation ==
    /\ ~ehist.reenriched
    /\ ehist.isolatedArtifacts \subseteq artistStorage
    /\ epc \in {"dead", "ready"} =>
          ehist.isolated \subseteq _load_processed_artists(ledgerFile)

C14_RetriesSameKey ==
    \A i, j \in 1..Len(hist.attemptKeys) : hist.attemptKeys[i] = hist.attemptKeys[j]

\* C15: a run_once in which the max_runtime guard raised returns False.
C15_TimeoutReported ==
    (pc = "idle" /\ hist.kind = "run_once" /\ hist.timedOut
        /\ result \in {"true", "false"})
    => result = "false"

C17_BoundedRetry == Len(hist.attemptKeys) <= max_retries

\* The artists held by the artifacts stored since the invocation began.
EnrichedByInvocation ==
    UNION {Range(a.recs) : a \in artistStorage \ ehist.artistStorage0}

\* C12: when process_new_artists_from_tracks has returned and none of its ledger
\* writes failed, the persisted ledger is the ledger persisted before the call
\* plus the artists whose enriched record this call stored, and no artist of
\* the earlier ledger was sent to process_artist_batch.
C12_LedgerAfterEnrichment ==
    (epc = "ready" /\ ehist.returned /\ ~ehist.saveFailed)
    => /\ _load_processed_artists(ledgerFile)
             = ehist.ledgerBefore \cup EnrichedByInvocation
       /\ ehist.sent \cap ehist.ledgerBefore = {}

C18_PreconditionsFatal ==
    [][pc = "preconditions"
          => /\ pc' \in {"cursor", "idle"}
             /\ pc' = "idle"
                  => /\ result' = "false"
                     /\ hist'.runStart = None
                     /\ storage' = hist'.storage0
                     /\ <<stateFile, ledgerFile, storage, artistStorage>>'
                          = <<stateFile, ledgerFile, storage, artistStorage>>]_vars

C18_Witness ==
    /\ pc = "idle"
    /\ hist.kind = "run_once"
    /\ result = "false"
    /\ stateFile \notin {NoFile, Torn}
    /\ ledgerFile.st = "ok"
    /\ ledgerFile.ids # {1}
    /\ storage # {}
    /\ artistStorage # {}

C20_NoOverlap ==
    [][/\ (pc' = "preconditions" /\ pc # "preconditions") => pc = "idle"
       /\ (due /\ pc # "idle") => (due' /\ hist'.storage0 = hist.storage0)
       /\ (due /\ ~due') => (pc = "idle" /\ pc' = "preconditions")]_vars

C20_Witness ==
    /\ due
    /\ pc = "save_dump"
    /\ runs = MaxRuns
    /\ hist.preRun # None

\* Records that follow one another in the source, in its order.
Contiguous(recs) ==
    \E i \in 1..Len(source) : recs = SubSeq(source, i, i + Len(recs) - 1)

\* C21: every object in the bucket holds one whole batch: records that are
\* contiguous in fetch order, at least one and at most batch_size of them; each
\* write stores exactly the current batch, and a batch written from inside the
\* loop (before the final flush or drain) has exactly batch_size records.
C21_WholeBatches ==
    /\ [](\A a \in storage :
            /\ Len(a.recs) \in 1..batchSize
            /\ Contiguous(a.recs))
    /\ [][storage' # storage
            => /\ \E a \in storage' : a.recs = batch /\ storage' \ {a} \subseteq storage
               /\ Len(batch) \in 1..batchSize
               /\ ret = "loop" => Len(batch) = batchSize]_vars

C21_Witness ==
    /\ RunOnceEnded
    /\ batchSize > 1
    /\ \E a, b \in NewArtifacts :
          /\ Len(a.recs) = batchSize
          /\ Len(b.recs) < batchSize
          /\ Last(a.recs) < b.recs[1]

\* The records the source holds after the cursor the run started from.
AfterStart == SelectSeq(source, LAMBDA r : r > hist.runStart)

\* ceil(n / d)
CeilDiv(n, d) == (n + d - 1) \div d

\* C22: when a run_once with no fetch failure, no upload failure and no timeout
\* has returned True, the objects it wrote hold each record after the start
\* cursor exactly once, there are ceil(n / batch_size) of them, and the
\* watermark is the greatest of these event times (unchanged when there are
\* none).
C22_CleanRunUploadsAll ==
    (RunOnceEnded /\ ~hist.upFailed /\ ~hist.fetchFailed /\ ~hist.timedOut)
    => /\ UNION {Range(a.recs) : a \in NewArtifacts} = Range(AfterStart)
       /\ \A a, b \in NewArtifacts : a # b => Range(a.recs) \cap Range(b.recs) = {}
       /\ Cardinality(NewArtifacts) = CeilDiv(Len(AfterStart), batchSize)
       /\ get_last_processed_timestamp =
             IF AfterStart = <<>> THEN hist.preRun ELSE Last(AfterStart)

\* C23: every run_once that has begun returns, with True or with False,
\* whatever fetches and uploads fail on the way and whether or not the runtime
\* guard ever fires.
C23_RunOnceTerminates ==
    [](pc = "preconditions"
         => <>(pc = "idle" /\ mode = "none" /\ result \in {"true", "false"}))

C23_Witness ==
    /\ pc = "idle"
    /\ result = "true"
    /\ hist.kind = "run_once"
    /\ hist.upFailed
    /\ ~hist.timedOut
    /\ NewArtifacts # {}
    /\ runs = MaxRuns

\* C24: when process_batch has returned True for a batch whose write failed at
\* least once and fewer than MaxAttempts times before it succeeded, in a run in
\* which no upload ran out of attempts, then exactly one object written by the
\* run holds that batch and the watermark is the batch's last event time.
C24_RetriedWriteOnce ==
    (pc = "pb_true" /\ ret # "restore" /\ ~hist.upFailed
       /\ pbAttempt = 1 /\ upAttempt > 1)
    => /\ Cardinality({a \in NewArtifacts : a.recs = batch}) = 1
       /\ stateFile = Last(batch)

\* C25: once force_reprocess_artists(artist_ids) has saved the ledger and goes
\* on to classify the artists, the persisted ledger is the ledger as it was
\* before, without exactly the given ids.
C25_ForceRemovesExactly ==
    (epc = "classify" /\ eret = "force")
    => _load_processed_artists(ledgerFile)
          = ehist.ledgerBefore \ Range(new_artist_ids)

\* The artist ids the track items refer to, null ids (0) left out.
Referenced(track_items) ==
    UNION {Range(track_items[i]) : i \in DOMAIN track_items} \ {0}

\* C26: the list extract_new_artists_from_tracks returns holds exactly the
\* non-null artist ids the track items refer to that are not in the ledger, each
\* once, and the call changes neither processed_artists nor the ledger file.
C26_ExtractNew ==
    /\ [](/\ Range(new_artist_ids) = Referenced(ehist.track_items) \ processed_artists
          /\ Cardinality(Range(new_artist_ids)) = Len(new_artist_ids))
    /\ [][<<processed_artists, ledgerFile>>' = <<processed_artists, ledgerFile>>]_vars

C26_Witness ==
    /\ new_artist_ids # <<>>
    /\ Referenced(ehist.track_items) \cap processed_artists # {}
    /\ \E i \in DOMAIN ehist.track_items : 0 \in Range(ehist.track_items[i])
    /\ \E i, j \in DOMAIN ehist.track_items :
          /\ i # j
          /\ (Range(ehist.track_items[i]) \cap Range(ehist.track_items[j])) \ {0} # {}

C28_EntityLeavesWatermark ==
    [][<<stateFile, last_processed_timestamp>>'
          = <<stateFile, last_processed_timestamp>>]_vars

C28_Witness ==
    /\ epc = "force_done"
    /\ stateFile = MaxRecords + 1
    /\ ehist.forced
    /\ ledgerFile.st = "ok"
    /\ artistStorage # {}
    /\ invocations = MaxInvocations

\* ------------------------------------------------------------ main.py exit code
\* main(): run-once calls sys.exit(0) when run_once() returned True and
\* sys.exit(1) when it returned False; backfill calls backfill_historical_data
\* and, when that returns, falls off the end of main (exit code 0); an exception
\* that leaves the call reaches "except Exception" and sys.exit(1).
sys_exit(outcome) ==
    CASE outcome = "true" -> 0
      [] outcome = "false" -> 1
      [] outcome = "returned" -> 0
      [] outcome = "raised" -> 1
      [] OTHER -> None

\* The exit code of the process that ran the last one-shot command.
main == sys_exit(result)

\* A one-shot command has run to its end.
CommandEnded == pc = "idle" /\ result \in {"true", "false", "returned", "raised"}

\* C29: a one-shot command exits with code 0 exactly when it succeeded and with
\* code 1 when it failed: run-once exits 0 exactly when run_once returned True,
\* and a backfill in which a fetch or an upload failed after its retries exits
\* with code 1.
C29_ExitCodes ==
    CommandEnded =>
       /\ main \in {0, 1}
       /\ hist.kind = "run_once" => (main = 0 <=> result = "true")
       /\ (hist.kind = "backfill" /\ (hist.upFailed \/ hist.fetchFailed)) => main = 1


\* ------------------------------------------- process_batch / upload_tracks_batch
\* called on their own
\* The lists of raw tracks a caller can hand over: runs of the source's records,
\* the empty list among them.
TrackLists == {SubSeq(source, i, j) : i \in 1..(Len(source) + 1), j \in 0..Len(source)}

Called(h, name, arg) ==
    [NoAttempts(h) EXCEPT !.upFailed = FALSE, !.fetchFailed = FALSE, !.timedOut = FALSE,
                          !.kind = name, !.arg = arg, !.runStart = None,
                          !.preRun = get_last_processed_timestamp,
                          !.storage0 = storage, !.storageAtFail = {},
                          !.failedBatch = <<>>, !.timeoutBatch = <<>>]

\* process_batch_call as it would be without "if not tracks: return True": the
\* empty list goes to upload_tracks_batch, which returns "", and process_batch
\* returns False.
process_batch_call_unguarded ==
    /\ pc = "idle"
    /\ runs < MaxRuns
    /\ runs' = runs + 1
    /\ \E tracks_arg \in TrackLists :
          /\ hist' = Called(hist, "process_batch", tracks_arg)
          /\ IF tracks_arg = <<>>
             THEN /\ result' = "false"
                  /\ UNCHANGED <<pc, mode, batch, ret>>
             ELSE /\ result' = "none"
                  /\ pc' = "upload"
                  /\ mode' = "process_batch"
                  /\ batch' = tracks_arg
                  /\ ret' = "direct"
    /\ UNCHANGED <<config, enrichment, stateFile, last_processed_timestamp, storage, clock,
                   waited, after, tracks, pos, pbAttempt, upAttempt, fetchAttempt,
                   s3_key, saveVal, original_timestamp>>

\* pipeline.process_batch(tracks): "if not tracks: return True"; else the tracks
\* are transformed and handed to upload_tracks_batch.
process_batch_call ==
    /\ pc = "idle"
    /\ runs < MaxRuns
    /\ runs' = runs + 1
    /\ \E tracks_arg \in TrackLists :
          /\ hist' = Called(hist, "process_batch", tracks_arg)
          /\ IF tracks_arg = <<>>
             THEN /\ result' = "true"
                  /\ UNCHANGED <<pc, mode, batch, ret>>
             ELSE /\ result' = "none"
                  /\ pc' = "upload"
                  /\ mode' = "process_batch"
                  /\ batch' = tracks_arg
                  /\ ret' = "direct"
    /\ UNCHANGED <<config, enrichment, stateFile, last_processed_timestamp, storage, clock,
                   waited, after, tracks, pos, pbAttempt, upAttempt, fetchAttempt,
                   s3_key, saveVal, original_timestamp>>

\* process_batch returned True to its caller, or its RetryError reached it.
process_batch_call_return ==
    /\ pc = "called"
    /\ result' = IF hist.upFailed THEN "raised" ELSE "true"
    /\ pc' = "idle"
    /\ mode' = "none"
    /\ ResetLocals
    /\ UNCHANGED <<config, enrichment, stateFile, last_processed_timestamp, storage, clock,
                   waited, runs, hist>>

\* s3_client.upload_tracks_batch(tracks): "if not tracks: return ''"; else the
\* object is put under the key of the current second and the key is returned, or
\* every attempt failed and RetryError is raised.
upload_tracks_batch_call ==
    /\ pc = "idle"
    /\ runs < MaxRuns
    /\ runs' = runs + 1
    /\ \E tracks_arg \in TrackLists :
          /\ hist' = Called(hist, "upload_tracks_batch", tracks_arg)
          /\ IF tracks_arg = <<>>
             THEN /\ s3_key' = NoKey
                  /\ result' = "returned"
                  /\ UNCHANGED <<storage, clock, waited>>
             ELSE \/ \E t \in UploadSeconds :
                        /\ t <= MaxClock
                        /\ clock' = t
                        /\ s3_key' = generate_s3_key(t, Len(tracks_arg))
                        /\ storage' = put_object(s3_key', tracks_arg)
                        /\ waited' = FALSE
                        /\ result' = "returned"
                  \/ /\ result' = "raised"
                     /\ s3_key' = NoKey
                     /\ waited' = TRUE
                     /\ UNCHANGED <<storage, clock>>
    /\ UNCHANGED <<config, enrichment, stateFile, last_processed_timestamp, pc, mode, after,
                   tracks, pos, batch, ret, pbAttempt, upAttempt, fetchAttempt,
                   saveVal, original_timestamp>>

\* The operations of Spec, and process_batch and upload_tracks_batch called on
\* their own between them.
SpecEmpty ==
    Init /\ [][Next \/ process_batch_call \/ process_batch_call_return
                    \/ upload_tracks_batch_call]_vars

\* C30: upload_tracks_batch of an empty list returns the empty string and leaves
\* the bucket as it was; process_batch of an empty list returns True and leaves
\* the bucket, the state file and the watermark in memory as they were.
C30_EmptyBatch ==
    [][(pc = "idle" /\ runs' = runs + 1 /\ hist'.arg = <<>>) =>
          /\ hist'.kind = "upload_tracks_batch" =>
                /\ s3_key' = NoKey
                /\ result' = "returned"
                /\ storage' = storage
          /\ hist'.kind = "process_batch" =>
                /\ result' = "true"
                /\ pc' = "idle"
                /\ <<storage, stateFile, last_processed_timestamp>>'
                      = <<storage, stateFile, last_processed_timestamp>>]_vars

C30_Witness ==
    /\ pc = "idle"
    /\ hist.kind = "process_batch"
    /\ hist.arg = <<>>
    /\ result = "true"
    /\ source # <<>>
    /\ storage # {}
    /\ stateFile \in Cursors
    /\ last_processed_timestamp = stateFile


\* C31: at every state of a backfill in which the state file is whole, the
\* watermark it holds is not lower than the one it held when the backfill
\* started.
C31_BackfillNeverLowers ==
    (mode = "backfill" /\ hist.preRun # None /\ stateFile # Torn)
        => stateFile >= hist.preRun


\* C32: when process_artist_batch or upload_artists_to_s3 raises after its
\* retries for one sub-batch, process_new_artists_from_tracks goes on with the
\* next sub-batch: the invocation ends at such a failure only when the failed
\* sub-batch was the last one.
C32_FailedSubBatchSkipped ==
    [][(/\ epc \in {"pab_failed", "upload_artists"}
        /\ eret # "force"
        /\ epc' = "ready")
          => subStart + SubBatchSize >= Len(new_artist_ids)]_vars


\* ------------------------------------- force_reprocess beside a running process
\* force_reprocess_artists(artist_ids) runs from start to end in a process of
\* its own while the process that holds the pipeline's processor is between two
\* cycles: the other process loads the ledger, removes the ids, writes the
\* ledger, classifies the artists and uploads what the classifier returned.
force_reprocess_artists_elsewhere ==
    /\ epc = "ready"
    /\ invocations < MaxInvocations
    /\ invocations' = invocations + 1
    /\ \E artist_ids \in RawArtists([a \in Artists |-> a]) \ {<<>>} :
          /\ ledgerFile' = LedgerOf(_load_processed_artists(ledgerFile) \ Range(artist_ids))
          /\ ehist' = [ehist EXCEPT !.ever = @ \ Range(artist_ids),
                                    !.isolated = @ \ Range(artist_ids),
                                    !.forced = TRUE,
                                    !.removed = @ \cup Range(artist_ids)]
          /\ \/ UNCHANGED <<artistStorage, clock>>
             \/ \E enhanced \in RawArtists(artist_ids) \ {<<>>} : \E t \in UploadSeconds :
                   /\ t <= MaxClock
                   /\ clock' = t
                   /\ LET key == generate_artist_s3_key(t, Len(enhanced))
                      IN artistStorage' = {a \in artistStorage : a.key # key}
                                             \cup {[key |-> key, recs |-> enhanced]}
    /\ waited' = TRUE
    /\ UNCHANGED <<ingestion, batchSize, processed_artists, epc, elocals>>

\* A process that holds a processor over several invocations, and
\* force_reprocess run beside it.
SpecForce == InitLedger /\ [][NextEntity \/ force_reprocess_artists_elsewhere]_vars

\* C33: an identifier that a completed force_reprocess removed from the ledger,
\* and that has not been enriched again since, is not in the ledger file, and is
\* not in the set the running process uses to tell new artists when its next
\* invocation of process_new_artists_from_tracks begins.
C33_ForceHonoured ==
    /\ ehist.removed \cap _load_processed_artists(ledgerFile) = {}
    /\ (epc = "fetch" /\ eret = "tracks" /\ subStart = 0 /\ pabAttempt = 1)
          => ehist.removed \cap processed_artists = {}


\* ------------------------------------------- a transport failure of sp.artists
\* get_multiple_artists: sp.artists(batch_ids) raised (connection reset,
\* timeout); the except clause inside the for loop logs it and continues, so
\* get_multiple_artists returns [] and its @retry sees no exception.
\* process_artist_batch transforms nothing, saves the ledger and returns [].
get_multiple_artists_raises ==
    /\ epc = "fetch"
    /\ transformed_artists' = <<>>
    /\ ehist' = [ehist EXCEPT !.sent = @ \cup Range(batch_ids), !.transport = TRUE]
    /\ epc' = "ledger_open"
    /\ UNCHANGED <<ingestion, batchSize, clock, waited, ledgerFile, processed_artists,
                   artistStorage, eret, new_artist_ids, subStart, pabAttempt,
                   uaAttempt, processed_count, invocations>>

\* The processor's invocations with a source whose artist endpoint can fail in
\* transport.
SpecTransport ==
    InitLedger /\ [][\/ ArtistGenreProcessor_init
                     \/ process_new_artists_from_tracks_start
                     \/ process_artist_batch_ok
                     \/ get_multiple_artists_raises
                     \/ process_artist_batch_transform_raises
                     \/ process_artist_batch_retry
                     \/ process_artist_batch_raise
                     \/ _save_processed_artists_open
                     \/ _save_processed_artists_dump
                     \/ _save_processed_artists_fails
                     \/ upload_artists_to_s3_ok
                     \/ upload_artists_to_s3_retry
                     \/ upload_artists_to_s3_raise
                     \/ next_sub_batch
                     \/ process_exit]_vars

\* C34: when the fetch of a sub-batch's artists fails in transport, the fetch is
\* tried again; the sub-batch is given up (process_artist_batch goes on without
\* its artists) only at the last attempt the retry policy allows.
C34_TransportRetried ==
    [][(epc = "fetch" /\ ehist'.transport /\ ~ehist.transport)
          => \/ epc' = "pab_failed"
             \/ pabAttempt = MaxAttempts]_vars


\* The limit get_recent_tracks passes to the source for one page.
RequestedLimit == Min(batchSize, PageCap)

\* C35: once the tracks of a page are consumed, get_all_recent_tracks_since
\* fetches the next page exactly when the page held as many records as were
\* requested from the source, and ends at a shorter page.
C35_NextPageIffFull ==
    [][(pc \in {"yield", "pb_true"} /\ pc' \in {"fetch", "flush"})
          => (pc' = "fetch" <=> Len(tracks) = RequestedLimit)]_vars


\* for i in range(0, len(new_artist_ids), batch_size): new_artist_ids[i:i + batch_size]
SubBatches(ids) ==
    [k \in 1..CeilDiv(Len(ids), SubBatchSize) |->
        SubSeq(ids, (k - 1) * SubBatchSize + 1, Min(k * SubBatchSize, Len(ids)))]

\* C36: the new identifiers of an invocation are split into consecutive
\* sub-batches of 1..min(50, batch_size) identifiers that give back the list
\* when put end to end, the sub-batch being enriched is one of them, and when
\* the invocation returns every new identifier has been sent for enrichment.
C36_SubBatchesPartition ==
    /\ []((eret = "tracks" /\ new_artist_ids # <<>>) =>
            /\ Flatten(SubBatches(new_artist_ids)) = new_artist_ids
            /\ \A k \in DOMAIN SubBatches(new_artist_ids) :
                  Len(SubBatches(new_artist_ids)[k]) \in 1..Min(ArtistPageCap, batchSize)
            /\ subStart % SubBatchSize = 0
            /\ batch_ids = SubBatches(new_artist_ids)[subStart \div SubBatchSize + 1])
    /\ [][(eret = "tracks" /\ epc # "ready" /\ epc' = "ready")
             => Range(new_artist_ids) \subseteq ehist.sent]_vars


\* ---------------------------------------------- a ledger backed by artifacts
\* The processor starts with no ledger, or with a ledger whose artist was
\* enriched and uploaded by an earlier process.
InitBacked ==
    /\ source = <<>>
    /\ batchSize \in 1..ArtistPageCap
    /\ stateFile = NoFile
    /\ IngestionIdle
    /\ hist = NoHist
    /\ ledgerFile \in {NoLedger, LedgerOf({1})}
    /\ processed_artists = {}
    /\ artistStorage = IF ledgerFile = NoLedger THEN {}
                       ELSE {[key |-> generate_artist_s3_key(0, 1), recs |-> <<1>>]}
    /\ epc = "dead"
    /\ invocations = 0
    /\ ehist = [NoEhist EXCEPT !.ever = _load_processed_artists(ledgerFile)]
    /\ EnrichmentLocals

SpecBacked == InitBacked /\ [][NextLedger]_vars

\* The artists whose enriched record is in some artifact of the bucket.
UploadedArtists == UNION {Range(a.recs) : a \in artistStorage}

\* C37: whenever no enrichment operation is running (it has returned, or the
\* process has stopped), every identifier in the ledger file has its enriched
\* record in some artifact of the bucket.
C37_LedgerBacked ==
    epc \in {"dead", "ready", "force_done"}
        => _load_processed_artists(ledgerFile) \subseteq UploadedArtists


\* C38: a backfill that has ended has returned normally, and when it stored no
\* batch the state file is as it was before the backfill.
C38_BackfillReturns ==
    (pc = "idle" /\ hist.kind = "backfill" /\ result # "none")
        => /\ result = "returned"
           /\ storage = hist.storage0 => stateFile = hist.preRun


\* --------------------------------------------- an I/O error in save_state
\* save_state: open(self.state_file, 'w') raised (the file is as it was), or
\* json.dump raised after the file was truncated; the except clause logs the
\* error, save_state returns, and update_last_processed_timestamp sets
\* self.last_processed_timestamp = timestamp all the same.
save_state_fails ==
    /\ pc \in {"save_open", "save_dump"}
    /\ last_processed_timestamp' = saveVal
    /\ pc' = IF ret = "restore" THEN "returned" ELSE "pb_true"
    /\ UNCHANGED <<config, enrichment, stateFile, storage, clock, waited, mode, locals,
                   result, runs, hist>>

\* The operations of Spec with a state file whose writes can fail.
SpecSaveFails == Init /\ [][Next \/ save_state_fails]_vars

\* C39: when process_batch returns True for a batch, the state file holds the
\* event time of the batch's last record.
C39_TrueOnlyIfPersisted ==
    (pc = "pb_true" /\ ret # "restore") => stateFile = Last(batch)

====
